---- MODULE Spec2Model ----
(***************************************************************************)
(* A model of neural_gpu.py: the construction of the NeuralGPU aggregator  *)
(* (variable store, RX slots, per-length instances), its run-time entry    *)
(* points (get_instance_for_length, step, simple_step, quant_op), and the  *)
(* pure tensor functions (sigmoid_cutoff, tanh_cutoff, quantize,           *)
(* relaxed_distance, construct_mask, the recurrent layer loop).            *)
(*                                                                         *)
(* Numbers.  Real tensors are modelled in fixed point:                     *)
(*   - parameter values are integers in units of 1/1024, so the grid of    *)
(*     quantize(t, 512, 8) is the even integers;                           *)
(*   - activations are integers in units of 1/10000, cutoffs and the       *)
(*     smoothing flags in units of 1/100;                                  *)
(*   - grid cells of the recurrent state are small integers.               *)
(* A tensor is a tuple of its elements; a batch is one example.            *)
(***************************************************************************)
EXTENDS Integers, Sequences, FiniteSets, TLC

\* ------------------------------------------------------------------ bounds
MaxLen == 4        \* bucket lengths and forward_max range over 1..MaxLen
MaxRx == 3         \* rx_step ranges over 1..MaxRx
MaxRunLen == 2     \* bucket lengths of the run-time specification
MaxSteps == 1      \* backward steps taken in the run-time specification
MaxSeqLen == 3     \* length of the example of the mask specification
MaxToken == 1      \* token ids of the mask specification are 0..MaxToken
MaxFwdLen == 2     \* length of the example of the layer-loop specification
MaxSlots == 2      \* RX slots of the relaxation specification

Seeds == {0, 1}            \* outcomes of the random initializers

VARIABLES
  \* configuration: data_utils.bins, data_utils.forward_max, config.rx_step,
  \* config.mode, config.nconvs, FLAGS.num_attention, the initializers' seed
  bins, forward_max, rx_step, mode, nconvs, num_attention, seed,
  \* program position
  pc,
  \* tf variable store of scope "model": names, creation log, values
  var_store, creations, params,
  \* NeuralGPU fields
  global_step, model_reuse, instances, quant_vars, avg_vars,
  \* construct_graph loop: lengths still to build, instance being built
  todo, cur_length, it, steps,
  \* result of the last run-time call
  ret,
  \* forward pass of one instance on one example
  input, target, mask, scales, cur, blocks, layers, layer, output,
  \* activation functions
  x, cutoff, smooth_grad, smooth_grad_tanh, out,
  \* relaxation penalty: numerator and denominator
  relax_dist

cfgVars == <<bins, forward_max, rx_step, mode, nconvs, num_attention, seed>>
storeVars == <<var_store, creations, params>>
modelVars == <<global_step, model_reuse, instances, quant_vars, avg_vars>>
loopVars == <<todo, cur_length, it, steps>>
fwdVars == <<input, target, mask, scales, cur, blocks, layers, layer, output>>
actVars == <<x, cutoff, smooth_grad, smooth_grad_tanh, out>>
vars == <<cfgVars, pc, storeVars, modelVars, loopVars, ret, fwdVars, actVars,
          relax_dist>>

\* ----------------------------------------------------------------- helpers
Min(a, b) == IF a < b THEN a ELSE b
Max(a, b) == IF a > b THEN a ELSE b

SetMin(S) == CHOOSE v \in S : \A w \in S : v <= w
SetMax(S) == CHOOSE v \in S : \A w \in S : v >= w

RECURSIVE SumSeq(_)
SumSeq(s) == IF s = <<>> THEN 0 ELSE Head(s) + SumSeq(Tail(s))

\* sorted(list(set(xs))): the ascending sequence of a set of integers.
RECURSIVE SortedSeq(_)
SortedSeq(S) ==
  IF S = {} THEN <<>>
  ELSE LET m == CHOOSE v \in S : \A w \in S : v <= w
       IN <<m>> \o SortedSeq(S \ {m})

SeqRange(s) == {s[i] : i \in 1..Len(s)}

\* ------------------------------------------------------- tf variable names
\* "model/<suffix>" has rx = NoRx; "model/RX<slot>/<suffix>" has rx = slot.
NoRx == -1
VarName(rx, suffix) == [rx |-> rx, suffix |-> suffix]
EmbeddingName == VarName(NoRx, <<"embedding">>)

\* --------------------------------------------------------- initial values
GateIndex(g) == CASE g = "r" -> 0 [] g = "c" -> 1 [] g = "g" -> 2 [] OTHER -> 3

\* A draw of the default (random) kernel initializer under a seed.
RandomKernel(name, sd) ==
  <<(sd + Max(name.rx, 0) + Len(name.suffix)
        + (IF Len(name.suffix) = 5 THEN name.suffix[2] + GateIndex(name.suffix[4])
           ELSE 0)) % 3>>

NiClass == 2         \* rows of the embedding table (config.niclass)
\* random_uniform_initializer(-1.7, 1.7): every row nonzero.
RandomEmbedding(sd) == [r \in 1..NiClass |-> 1 + ((sd + r) % 2)]

\* ------------------------------------------------------- tf variable store
\* A store state: the names that exist, the creation log (trainable_variables()
\* in creation order), the values, the pending exception, and the variables the
\* calls so far returned.
StoreState(store, log, vals) ==
  [store |-> store, log |-> log, vals |-> vals, err |-> "none", used |-> <<>>]

\* tf.get_variable(name) under a scope whose reuse flag is `reuse`: with reuse
\* the variable must exist, without it the variable must not exist and is
\* created with the initializer's value; either failure raises ValueError.
GetVariable(st, name, reuse, init) ==
  IF st.err # "none" THEN st
  ELSE IF name \in st.store
    THEN IF reuse THEN [st EXCEPT !.used = Append(@, name)]
         ELSE [st EXCEPT !.err = "ValueError: already exists"]
    ELSE IF reuse THEN [st EXCEPT !.err = "ValueError: does not exist"]
         ELSE [st EXCEPT !.store = @ \cup {name},
                         !.log = Append(@, name),
                         !.vals = [n \in (DOMAIN @) \cup {name} |->
                                     IF n = name THEN init ELSE @[n]],
                         !.used = Append(@, name)]

\* The object a name denotes: its place in the creation log.
VarId(log, name) == CHOOSE i \in 1..Len(log) : log[i] = name

\* ------------------------------------------------------------ graph layers
\* conv_linear: CvK, then (with do_bias) CvB, under scope prefix.
ConvLinear(st, rx, prefix, do_bias, reuse, sd) ==
  LET k == VarName(rx, prefix \o <<"CvK">>)
      b == VarName(rx, prefix \o <<"CvB">>)
      st1 == GetVariable(st, k, reuse, RandomKernel(k, sd))
  IN IF do_bias THEN GetVariable(st1, b, reuse, <<0>>) ELSE st1

\* conv_gru: the reset, candidate and gate transforms, in that order.
ConvGru(st, rx, prefix, reuse, sd) ==
  LET r == ConvLinear(st, rx, prefix \o <<"r">>, TRUE, reuse, sd)
      c == ConvLinear(r, rx, prefix \o <<"c">>, TRUE, reuse, sd)
  IN ConvLinear(c, rx, prefix \o <<"g">>, TRUE, reuse, sd)

\* gru_block: conv_gru under "cgru_<layer>_<suffix>" for layer = 0..nconvs-1.
RECURSIVE GruBlockFrom(_, _, _, _, _, _, _)
GruBlockFrom(st, l, n, rx, suffix, reuse, sd) ==
  IF l >= n THEN st
  ELSE GruBlockFrom(ConvGru(st, rx, <<"cgru", l, suffix>>, reuse, sd),
                    l + 1, n, rx, suffix, reuse, sd)

GruBlock(st, n, rx, suffix, reuse, sd) == GruBlockFrom(st, 0, n, rx, suffix, reuse, sd)

\* RxSlot with the step index off by one.
RxSlotShifted(i) == (i + 1) % rx_step

\* The slot of recurrent step i, and whether the step's scope reuses.
RxSlot(i) == i % rx_step
StepReuse(i) == model_reuse \/ i >= rx_step
BlockSuffix == IF num_attention > 0 THEN "grublocks" ELSE "lookup"

\* The instance lengths: sorted(list(set(bins + [forward_max]))).
InstanceLengths == SortedSeq(SeqRange(bins) \cup {forward_max})

\* HasBackward without the bound on the length in mode 0.
HasBackwardAnyLength(length) == length = bins[1] \/ mode = 0

\* Whether an instance of this length gets update and grad_norm.
HasBackward(length) ==
  length = bins[1] \/ (mode = 0 /\ length < bins[Len(bins)] + 1)

\* relaxed_distance's variables: those whose second name component starts RX.
IsRx(name) == name.rx >= 0

\* ---------------------------------------------------------------- initial
NoOut == [fn |-> "none", err |-> "none", val |-> 0]
NoRet == [op |-> "none", arg |-> 0, do_backward |-> FALSE, error |-> "none",
          length |-> 0, updated |-> FALSE]

IdleForward ==
  /\ input = <<>> /\ target = <<>> /\ mask = <<>> /\ scales = <<>>
  /\ cur = <<>> /\ blocks = <<>> /\ layers = <<>> /\ layer = 0 /\ output = 0

IdleActivation ==
  /\ x = 0 /\ cutoff = 0 /\ smooth_grad = 0 /\ smooth_grad_tanh = 0
  /\ out = NoOut

\* No model: an empty default graph.
IdleModel ==
  /\ var_store = {} /\ creations = <<>> /\ params = <<>>
  /\ global_step = 0 /\ model_reuse = FALSE /\ instances = <<>>
  /\ quant_vars = {} /\ avg_vars = {}
  /\ todo = <<>> /\ cur_length = 0 /\ it = 0 /\ steps = <<>>
  /\ ret = NoRet
  /\ relax_dist = [num |-> 0, den |-> 1]

\* The process before NeuralGPU(config) is called.
NewProcess == pc = "new" /\ IdleModel

\* data_utils.bins is an ascending list of bucket lengths.
BinLists(n) == {SortedSeq(S) : S \in (SUBSET (1..n)) \ {{}}}

InitBuild ==
  /\ bins \in BinLists(MaxLen)
  /\ forward_max \in 1..MaxLen
  /\ rx_step \in 1..MaxRx
  /\ mode \in {0, 1}
  /\ nconvs \in {1, 2}
  /\ num_attention \in {0, 1}
  /\ seed = 0
  /\ NewProcess /\ IdleForward /\ IdleActivation

\* ----------------------------------------------------------- construction
\* quantize_weights_op: one assign per variable of trainable_variables() at
\* the time the op is built.
QuantizeWeightsOp(log) == SeqRange(log)

\* The exception a graph-building call leaves __init__ with, if any.
RaisedBy(st) ==
  IF st.err = "none" THEN NoRet
  ELSE [NoRet EXCEPT !.op = "__init__", !.error = st.err]

\* NeuralGPU.__init__ up to the instance loop of construct_graph: the global
\* step, quant_op, the embedding table and e0, the optimizer.
NeuralGPUInit ==
  /\ pc = "new"
  /\ LET st == GetVariable(StoreState(var_store, creations, params),
                           EmbeddingName, model_reuse, RandomEmbedding(seed))
     IN /\ var_store' = st.store
        /\ creations' = st.log
        /\ params' = st.vals
        /\ ret' = RaisedBy(st)
        /\ pc' = IF st.err = "none" THEN "loop" ELSE "failed"
  /\ global_step' = 0
  /\ quant_vars' = QuantizeWeightsOp(creations)
  /\ instances' = <<>>
  /\ todo' = InstanceLengths
  /\ UNCHANGED <<cfgVars, model_reuse, avg_vars, cur_length, it, steps,
                 fwdVars, actVars, relax_dist>>

\* One round of the instance loop begins: NeuralGPUAtSize.__init__ and
\* construct_graph up to the input convolution.
InstanceBegin ==
  /\ pc = "loop" /\ todo # <<>>
  /\ LET st == ConvLinear(StoreState(var_store, creations, params), NoRx,
                          <<"input">>, TRUE, model_reuse, seed)
     IN /\ var_store' = st.store
        /\ creations' = st.log
        /\ params' = st.vals
        /\ ret' = RaisedBy(st)
        /\ pc' = IF st.err = "none" THEN "layers" ELSE "failed"
  /\ cur_length' = Head(todo)
  /\ it' = 0
  /\ steps' = <<>>
  /\ UNCHANGED <<cfgVars, modelVars, todo, fwdVars, actVars, relax_dist>>

\* construct_all_layers, one iteration of `for it in xrange(self.length)`:
\* the step's block under scope RX<it mod rx_step>, reusing once
\* it >= rx_step (or when the enclosing scope already reuses).
LayerStep ==
  /\ pc = "layers" /\ it < cur_length
  /\ LET st == GruBlock(StoreState(var_store, creations, params), nconvs,
                        RxSlot(it), BlockSuffix, StepReuse(it), seed)
     IN /\ var_store' = st.store
        /\ creations' = st.log
        /\ params' = st.vals
        /\ ret' = RaisedBy(st)
        /\ IF st.err = "none"
             THEN /\ pc' = "layers"
                  /\ it' = it + 1
                  /\ steps' = Append(steps,
                        [slot |-> RxSlot(it),
                         ids |-> {VarId(st.log, st.used[i]) : i \in 1..Len(st.used)}])
             ELSE /\ pc' = "failed"
                  /\ UNCHANGED <<it, steps>>
  /\ UNCHANGED <<cfgVars, modelVars, todo, cur_length, fwdVars, actVars,
                 relax_dist>>

\* The rest of construct_graph (output convolution, relaxed_distance, the
\* backward pass where the length calls for one), then the loop body's tail:
\* the instance is appended and the scope "model" is switched to reuse.
InstanceEnd ==
  /\ pc = "layers" /\ it = cur_length
  /\ LET st == ConvLinear(StoreState(var_store, creations, params), NoRx,
                          <<"output">>, TRUE, model_reuse, seed)
     IN /\ var_store' = st.store
        /\ creations' = st.log
        /\ params' = st.vals
        /\ ret' = RaisedBy(st)
        /\ IF st.err = "none"
             THEN /\ pc' = "loop"
                  /\ avg_vars' = {n \in st.store : IsRx(n)}
                  /\ instances' = Append(instances,
                        [length |-> cur_length,
                         has_update |-> HasBackward(cur_length),
                         steps |-> steps])
                  /\ model_reuse' = TRUE
                  /\ todo' = Tail(todo)
             ELSE /\ pc' = "failed"
                  /\ UNCHANGED <<avg_vars, instances, model_reuse, todo>>
  /\ UNCHANGED <<cfgVars, global_step, quant_vars, cur_length, it, steps,
                 fwdVars, actVars, relax_dist>>

\* The loop is exhausted: __init__ returns the model.
ConstructDone ==
  /\ pc = "loop" /\ todo = <<>>
  /\ pc' = "ready"
  /\ UNCHANGED <<cfgVars, storeVars, modelVars, loopVars, ret, fwdVars, actVars,
                 relax_dist>>

Construct ==
  \/ NeuralGPUInit
  \/ InstanceBegin
  \/ LayerStep
  \/ InstanceEnd
  \/ ConstructDone

\* ------------------------------------------------- get_instance_for_length
\* FirstInstance comparing with > where the code compares with >=.
RECURSIVE FirstInstanceStrict(_, _, _)
FirstInstanceStrict(insts, i, length) ==
  IF i > Len(insts) THEN [error |-> "IndexError", length |-> 0, index |-> 0]
  ELSE IF insts[i].length > length
    THEN [error |-> "none", length |-> insts[i].length, index |-> i]
    ELSE FirstInstanceStrict(insts, i + 1, length)

\* The first instance, in list order, whose length is >= length; IndexError
\* when the loop runs off the list.
RECURSIVE FirstInstance(_, _, _)
FirstInstance(insts, i, length) ==
  IF i > Len(insts) THEN [error |-> "IndexError", length |-> 0, index |-> 0]
  ELSE IF insts[i].length >= length
    THEN [error |-> "none", length |-> insts[i].length, index |-> i]
    ELSE FirstInstance(insts, i + 1, length)

InstanceForLength(length) == FirstInstance(instances, 1, length)

GetInstanceForLength ==
  /\ pc = "ready"
  /\ \E n \in 0..(MaxLen + 1) :
       LET r == InstanceForLength(n)
       IN ret' = [op |-> "get_instance_for_length", arg |-> n,
                  do_backward |-> FALSE, error |-> r.error,
                  length |-> r.length, updated |-> FALSE]
  /\ UNCHANGED <<cfgVars, pc, storeVars, modelVars, loopVars, fwdVars, actVars,
                 relax_dist>>

NextBuild == Construct \/ GetInstanceForLength

SpecBuild == InitBuild /\ [][NextBuild]_vars

\* ---------------------------------------------------------------- run time
QuantScale == 512
QuantMax == 8
ParamUnit == 1024

\* quantize(t, quant_scale, max_value) on one element, in 1/ParamUnit units:
\* clamp to [-max_value, max_value], floor(quant_scale * (t + max_value) + 0.5),
\* divide by quant_scale, subtract max_value.
Quantize(t, quant_scale, max_value) ==
  LET top == max_value * ParamUnit
      c == Min(top, Max(t, -top))
      big2 == 2 * quant_scale * (c + top) + ParamUnit    \* 2 * ParamUnit * big
      fl == big2 \div (2 * ParamUnit)
  IN (fl * ParamUnit) \div quant_scale - top

QuantizeTensor(v) == [i \in DOMAIN v |-> Quantize(v[i], QuantScale, QuantMax)]

\* Running quant_op: the assigns the op was built with.
QuantOpRun(vals, assigned) ==
  [n \in DOMAIN vals |-> IF n \in assigned THEN QuantizeTensor(vals[n]) ELSE vals[n]]

\* e0: scatter_update of row 0 of the embedding table with zeros.
E0(vals) ==
  [vals EXCEPT ![EmbeddingName] = [r \in DOMAIN @ |-> IF r = 1 THEN 0 ELSE @[r]]]

\* ForwardRun with the update fetched whatever do_backward says.
ForwardRunTrains(vals) ==
  [n \in DOMAIN E0(vals) |-> [i \in DOMAIN vals[n] |-> E0(vals)[n][i] + 1]]

\* What running the forward fetches (loss, outputs, attention, layers) writes:
\* the embedding lookup runs after e0, nothing else assigns.
ForwardRun(vals) == E0(vals)

\* Outcomes of a gradient: the amount apply_gradients moves the parameters by.
Grads == {-1, 1}

\* What running instance.update writes after the forward pass: every trainable
\* parameter moves, and the global step is incremented.
ApplyGradients(vals, g) ==
  [n \in DOMAIN vals |-> [i \in DOMAIN vals[n] |-> vals[n][i] + g]]

\* The exception step() raises before (or while) running the session, in the
\* order of its statements; "none" when the run goes through.
StepError(n, do_backward) ==
  LET r == InstanceForLength(n)
  IN IF n > forward_max + 1 THEN "IndexError"            \* self.input[l]
     ELSE IF r.error # "none" THEN r.error                \* no bucket holds n
     ELSE IF do_backward /\ ~instances[r.index].has_update
       THEN "AttributeError"                              \* instance.update
     ELSE IF n < r.length THEN "InvalidArgumentError"     \* placeholder not fed
     ELSE "none"

StepResult(op, arg, n, do_backward, error, updated) ==
  [op |-> op, arg |-> arg, do_backward |-> do_backward, error |-> error,
   length |-> IF error \in {"none", "InvalidArgumentError", "AttributeError"}
              THEN InstanceForLength(n).length ELSE 0,
   updated |-> updated]

\* step(sess, batch, do_backward) on a batch of length n, called as `op`.
StepCall(op, arg, n, do_backward) ==
  LET e == StepError(n, do_backward)
  IN \/ /\ e \in {"IndexError", "AttributeError"}
        /\ ret' = StepResult(op, arg, n, do_backward, e, FALSE)
        /\ UNCHANGED <<params, global_step>>
     \/ /\ e = "InvalidArgumentError"
        \* the run fails at an unfed placeholder; e0 does not depend on one
        /\ \E ran \in BOOLEAN :
             params' = IF ran THEN E0(params) ELSE params
        /\ ret' = StepResult(op, arg, n, do_backward, e, FALSE)
        /\ UNCHANGED global_step
     \/ /\ e = "none" /\ ~do_backward
        /\ params' = ForwardRun(params)
        /\ ret' = StepResult(op, arg, n, do_backward, e, FALSE)
        /\ UNCHANGED global_step
     \/ /\ e = "none" /\ do_backward
        /\ global_step < MaxSteps
        /\ \E g \in Grads : params' = ApplyGradients(ForwardRun(params), g)
        /\ global_step' = global_step + 1
        /\ ret' = StepResult(op, arg, n, do_backward, e, TRUE)

Step ==
  /\ pc = "ready"
  /\ \E n \in 0..(MaxRunLen + 2), do_backward \in BOOLEAN :
       StepCall("step", n, n, do_backward)
  /\ UNCHANGED <<cfgVars, pc, var_store, creations, model_reuse, instances,
                 quant_vars, avg_vars, loopVars, fwdVars, actVars, relax_dist>>

\* simple_step(sess, a): pad a to the length of its bucket, then a forward step.
SimpleStep ==
  /\ pc = "ready"
  /\ \E n \in 0..(MaxRunLen + 2) :
       LET r == InstanceForLength(n)
       IN IF r.error # "none"
            THEN /\ ret' = StepResult("simple_step", n, n, FALSE, r.error, FALSE)
                 /\ UNCHANGED <<params, global_step>>
            ELSE StepCall("simple_step", n, r.length, FALSE)
  /\ UNCHANGED <<cfgVars, pc, var_store, creations, model_reuse, instances,
                 quant_vars, avg_vars, loopVars, fwdVars, actVars, relax_dist>>

\* sess.run(model.quant_op)
RunQuantOp ==
  /\ pc = "ready"
  /\ params' = QuantOpRun(params, quant_vars)
  /\ ret' = [NoRet EXCEPT !.op = "quant_op"]
  /\ UNCHANGED <<cfgVars, pc, var_store, creations, modelVars, loopVars,
                 fwdVars, actVars, relax_dist>>

InitRun ==
  /\ bins \in BinLists(MaxRunLen)
  /\ forward_max \in 1..(MaxRunLen + 1)
  /\ rx_step \in 1..MaxRunLen
  /\ mode \in {0, 1}
  /\ nconvs = 1
  /\ num_attention = 0
  /\ seed \in Seeds
  /\ NewProcess /\ IdleForward /\ IdleActivation

NextRun == Construct \/ GetInstanceForLength \/ Step \/ SimpleStep \/ RunQuantOp

SpecRun == InitRun /\ [][NextRun]_vars

\* ------------------------------------------------------------- activations
\* Activations are in units of 1/ActUnit; cutoffs and the smoothing flags
\* (FLAGS.smooth_grad, FLAGS.smooth_grad_tanh) in units of 1/FlagUnit.
ActUnit == 100000
FlagUnit == 1000
None == <<>>
Some(v) == <<v>>

\* tf.sigmoid and tf.tanh at the integers, to two decimals.
Sigmoid(a) ==
  CASE a <= -3 -> 5000 [] a = -2 -> 12000 [] a = -1 -> 27000 [] a = 0 -> 50000
    [] a = 1 -> 73000 [] a = 2 -> 88000 [] OTHER -> 95000

Tanh(a) ==
  CASE a <= -3 -> -100000 [] a = -2 -> -96000 [] a = -1 -> -76000 [] a = 0 -> 0
    [] a = 1 -> 76000 [] a = 2 -> 96000 [] OTHER -> 100000

ClipByValue(v, lo, hi) == Min(hi, Max(v, lo))

\* tf_cut_function: the forward value.  zz - stop_gradient(zz - a) is a.
TfCutFunction(val, vlo, vhi, glo, ghi) ==
  IF vlo = None THEN [err |-> "none", val |-> val]
  ELSE LET a == ClipByValue(val, vlo[1], vhi[1])
       IN IF glo = None THEN [err |-> "none", val |-> a]
          ELSE IF ~(ghi[1] >= vhi[1] /\ vhi[1] > vlo[1] /\ vlo[1] >= glo[1])
            THEN [err |-> "AssertionError", val |-> 0]
            ELSE LET zz == ClipByValue(val, glo[1], ghi[1])
                 IN [err |-> "none", val |-> zz - (zz - a)]

\* sigmoid_cutoff without the early return for small cutoffs.
SigmoidCutoffAlwaysScaled(a, c, sg) ==
  LET y == Sigmoid(a)
      d == ((c - FlagUnit) * ActUnit) \div (2 * FlagUnit)
      z == (c * y) \div FlagUnit - d
      dd == ((sg - FlagUnit) * ActUnit) \div (2 * FlagUnit)
  IN IF sg # 0 THEN TfCutFunction(z, Some(0), Some(ActUnit), Some(-dd), Some(ActUnit + dd))
     ELSE TfCutFunction(z, Some(0), Some(ActUnit), None, None)

\* sigmoid_cutoff(x, cutoff) under FLAGS.smooth_grad = sg.
SigmoidCutoff(a, c, sg) ==
  LET y == Sigmoid(a)
      d == ((c - FlagUnit) * ActUnit) \div (2 * FlagUnit)
      z == (c * y) \div FlagUnit - d
      dd == ((sg - FlagUnit) * ActUnit) \div (2 * FlagUnit)
  IN IF c < 1010 THEN [err |-> "none", val |-> y]
     ELSE IF sg # 0
       THEN TfCutFunction(z, Some(0), Some(ActUnit), Some(-dd), Some(ActUnit + dd))
       ELSE TfCutFunction(z, Some(0), Some(ActUnit), None, None)

\* tanh_cutoff(x, cutoff) under FLAGS.smooth_grad_tanh = tcut.
TanhCutoff(a, c, tcut) ==
  LET y == Tanh(a)
      z == (c * y) \div FlagUnit
      t == (tcut * ActUnit) \div FlagUnit
  IN IF c < 1010 THEN [err |-> "none", val |-> y]
     ELSE IF tcut # 0
       THEN TfCutFunction(z, Some(-ActUnit), Some(ActUnit), Some(-t), Some(t))
       ELSE TfCutFunction(z, Some(-ActUnit), Some(ActUnit), None, None)

Xs == -3..3
Cutoffs == {900, 1000, 1005, 1010, 1020, 1200}
SmoothGrads == {0, 900, 1000, 1200}

InitCutoff ==
  /\ x \in Xs
  /\ cutoff \in Cutoffs
  /\ smooth_grad \in SmoothGrads
  /\ smooth_grad_tanh \in SmoothGrads
  /\ out = NoOut
  /\ pc = "activation"
  /\ bins = <<1>> /\ forward_max = 1 /\ rx_step = 1 /\ mode = 0
  /\ nconvs = 1 /\ num_attention = 0 /\ seed = 0
  /\ IdleModel /\ IdleForward

SigmoidCutoffCall ==
  /\ pc = "activation"
  /\ out' = [fn |-> "sigmoid_cutoff"] @@ SigmoidCutoff(x, cutoff, smooth_grad)
  /\ UNCHANGED <<cfgVars, pc, storeVars, modelVars, loopVars, ret, fwdVars,
                 x, cutoff, smooth_grad, smooth_grad_tanh, relax_dist>>

TanhCutoffCall ==
  /\ pc = "activation"
  /\ out' = [fn |-> "tanh_cutoff"] @@ TanhCutoff(x, cutoff, smooth_grad_tanh)
  /\ UNCHANGED <<cfgVars, pc, storeVars, modelVars, loopVars, ret, fwdVars,
                 x, cutoff, smooth_grad, smooth_grad_tanh, relax_dist>>

NextCutoff == SigmoidCutoffCall \/ TanhCutoffCall

SpecCutoff == InitCutoff /\ [][NextCutoff]_vars

\* C6 as stated: for every cutoff <= 1.01, 1.01 included, sigmoid_cutoff is the
\* plain sigmoid and tanh_cutoff the plain tanh, whatever x and the smoothing.
C6_PlainUpToAndIncluding101 ==
  cutoff <= 1010 =>
    /\ out.fn = "sigmoid_cutoff" => out.err = "none" /\ out.val = Sigmoid(x)
    /\ out.fn = "tanh_cutoff" => out.err = "none" /\ out.val = Tanh(x)

\* C6 amended: for every cutoff strictly below 1.01, sigmoid_cutoff is the
\* plain sigmoid and tanh_cutoff the plain tanh, whatever x and the smoothing.
C6_PlainBelow101 ==
  cutoff < 1010 =>
    /\ out.fn = "sigmoid_cutoff" => out.err = "none" /\ out.val = Sigmoid(x)
    /\ out.fn = "tanh_cutoff" => out.err = "none" /\ out.val = Tanh(x)

C6_Witness ==
  /\ cutoff = 1005 /\ x = 2 /\ smooth_grad = 900
  /\ out.fn = "sigmoid_cutoff" /\ out.val = 88000

\* -------------------------------------------------------------------- mask
\* construct_mask on one example: mask is 1 where input or target is nonzero.
ConstructMask(inp, tgt) ==
  [i \in 1..Len(inp) |-> IF inp[i] > 0 \/ tgt[i] > 0 THEN 1 ELSE 0]

\* padded_mask: the mask with `pad` appended.
PaddedMask(m, pad) == Append(m, pad)

\* ConstructScales padding the mask with a one.
ConstructScalesPadOne(m, length) ==
  [i \in 1..length |-> PaddedMask(m, 1)[i] * (1 - PaddedMask(m, 1)[i + 1])]

\* scales = padded_mask[:, :length] * (1 - padded_mask[:, 1:]), the pad a zero.
ConstructScales(m, length) ==
  [i \in 1..length |-> PaddedMask(m, 0)[i] * (1 - PaddedMask(m, 0)[i + 1])]

\* The logits of step d in a run: a value no sum of other steps' values equals.
StepLogits(d) == 2 ^ (d - 1)

\* output = reduce_sum(outputs * scales, 0)
SelectOutput(sc) == SumSeq([d \in 1..Len(sc) |-> StepLogits(d) * sc[d]])

Examples(maxlen, maxtok) == UNION {[1..n -> 0..maxtok] : n \in 1..maxlen}

InitMask ==
  /\ input \in Examples(MaxSeqLen, MaxToken)
  /\ target \in Examples(MaxSeqLen, MaxToken)
  /\ Len(input) = Len(target)
  /\ mask = <<>> /\ scales = <<>>
  /\ cur = <<>> /\ blocks = <<>> /\ layers = <<>> /\ layer = 0 /\ output = 0
  /\ pc = "mask"
  /\ bins = <<1>> /\ forward_max = 1 /\ rx_step = 1 /\ mode = 0
  /\ nconvs = 1 /\ num_attention = 0 /\ seed = 0
  /\ IdleModel /\ IdleActivation

\* construct_mask, and the selection of the output among the steps' logits.
ConstructMaskCall ==
  /\ pc = "mask"
  /\ mask' = ConstructMask(input, target)
  /\ scales' = ConstructScales(mask', Len(input))
  /\ output' = SelectOutput(scales')
  /\ pc' = "masked"
  /\ UNCHANGED <<cfgVars, storeVars, modelVars, loopVars, ret, input, target,
                 cur, blocks, layers, layer, actVars, relax_dist>>

NextMask == ConstructMaskCall

SpecMask == InitMask /\ [][NextMask]_vars

NonPadding == {i \in 1..Len(input) : input[i] # 0 \/ target[i] # 0}
LastNonPadding == SetMax(NonPadding)
OneHotAtLast ==
  /\ NonPadding # {}
  /\ \A i \in 1..Len(scales) : scales[i] = IF i = LastNonPadding THEN 1 ELSE 0
  /\ output = StepLogits(LastNonPadding)

\* C5 as stated: for every example the scale tensor is one-hot over the steps,
\* 1 exactly at the last non-padding position, so the weighted sum of the
\* per-step logits is the logits of that single step.
C5_ScaleOneHotForEveryExample ==
  pc = "masked" => OneHotAtLast

\* C5 amended: for every example whose non-padding positions form one
\* non-empty contiguous run, the scale tensor is one-hot over the steps, 1
\* exactly at the last non-padding position, and the weighted sum selects that
\* step's logits alone.
C5_ScaleOneHotForContiguousExample ==
  (/\ pc = "masked"
   /\ NonPadding # {}
   /\ \A i \in 1..Len(input) :
        (SetMin(NonPadding) <= i /\ i <= SetMax(NonPadding)) => i \in NonPadding)
  => OneHotAtLast

C5_Witness ==
  /\ pc = "masked" /\ Len(input) = 3
  /\ input = <<1, 0, 0>> /\ target = <<1, 1, 0>>
  /\ scales = <<0, 1, 0>> /\ output = StepLogits(2)

\* ------------------------------------------------------------ forward pass
\* The recurrent loop of construct_all_layers as the session runs it on one
\* example: a grid is a tuple of cells, one per position (the height and
\* channel axes, over which the mask broadcasts, are one cell).
Cells == {0, 1}
Grids(n) == [1..n -> Cells]

\* tensor * mask
MaskMul(grid, m) == [p \in DOMAIN grid |-> grid[p] * m[p]]

\* tf.nn.dropout: a cell is kept or zeroed (with keep_prob 1 all are kept).
Dropout(grid, keep) == [p \in DOMAIN grid |-> grid[p] * keep[p]]

\* conv_gru: gate * mem + (1 - gate) * candidate.  The gate and the candidate
\* come out of convolutions over the neighbourhood with trainable kernels and
\* biases: any value at any position, padded ones included.
ConvGruOut(mem, gate, candidate) ==
  [p \in DOMAIN mem |-> gate[p] * mem[p] + (1 - gate[p]) * candidate[p]]

\* One pass of gru_block's body without `cur *= mask`.
GruLayerUnmasked(mem, gate, candidate, m) == ConvGruOut(mem, gate, candidate)

\* One pass of gru_block's body: conv_gru, then cur *= mask.
GruLayer(mem, gate, candidate, m) == MaskMul(ConvGruOut(mem, gate, candidate), m)

\* logits = reduce_sum(keys * cur_att), one per key.
AttentionLogits(result, k) ==
  [j \in 1..k |-> SumSeq([p \in DOMAIN result[j] |-> result[j][p] * result[2 * k + 1][p]])]

\* softmax as weights over a common denominator: uniform on equal logits, and
\* all on the largest ones otherwise.
SoftmaxWeights(logits) ==
  [j \in DOMAIN logits |->
     IF \A i \in DOMAIN logits : logits[i] <= logits[j] THEN 1 ELSE 0]

\* cur = reduce_sum(attention_probs * vals, 0), vals = result[k:2k].
Attend(result, k) ==
  LET w == SoftmaxWeights(AttentionLogits(result, k))
  IN [p \in DOMAIN result[1] |->
        SumSeq([j \in 1..k |-> w[j] * result[k + j][p]]) \div SumSeq(w)]

InitLayers ==
  /\ input \in Examples(MaxFwdLen, 1)
  /\ target \in Examples(MaxFwdLen, 1)
  /\ Len(input) = Len(target)
  \* a position holds an input token, a target token, or padding
  /\ \A p \in 1..Len(input) : input[p] = 0 \/ target[p] = 0
  /\ nconvs \in {1, 2}
  /\ num_attention \in {0, 1}
  /\ mask = <<>> /\ scales = <<>>
  /\ cur = <<>> /\ blocks = <<>> /\ layers = <<>> /\ layer = 0 /\ output = 0
  /\ pc = "fwd_new"
  /\ bins = <<1>> /\ forward_max = 1 /\ rx_step = 1 /\ mode = 0 /\ seed = 0
  /\ IdleModel /\ IdleActivation

\* first: the input convolution of the embedded example.  Its bias makes it
\* nonzero wherever it likes, padded positions included.
First(n) == [p \in 1..n |-> 1]

\* The mask, and cur = first.
ForwardBegin ==
  /\ pc = "fwd_new"
  /\ mask' = ConstructMask(input, target)
  /\ scales' = ConstructScales(mask', Len(input))
  /\ cur' = First(Len(input))
  /\ it' = 0
  /\ layers' = <<>>
  /\ pc' = "fwd_step"
  /\ UNCHANGED <<cfgVars, storeVars, modelVars, todo, cur_length, steps, ret,
                 input, target, blocks, layer, output, actVars, relax_dist>>

\* A step begins: cur = dropout(cur) * mask, and with attention the 2k+1
\* copies of cur that gru_block runs on.
StepBegin ==
  /\ pc = "fwd_step" /\ it < Len(input)
  /\ \E keep \in Grids(Len(input)) :
       /\ cur' = MaskMul(Dropout(cur, keep), mask)
       /\ blocks' = IF num_attention > 0
                      THEN [j \in 1..(2 * num_attention + 1) |-> cur']
                      ELSE <<cur'>>
  /\ layer' = 0
  /\ pc' = "fwd_block"
  /\ UNCHANGED <<cfgVars, storeVars, modelVars, loopVars, ret, input, target,
                 mask, scales, layers, output, actVars, relax_dist>>

\* One iteration of gru_block's loop; the copies, equal going in and run
\* through the same kernels, get the same gate and candidate.
GruBlockStep ==
  /\ pc = "fwd_block" /\ layer < nconvs
  /\ \E gate \in Grids(Len(input)), candidate \in Grids(Len(input)) :
       \* where the gate is 1 the candidate does not count: one value is tried
       /\ \A p \in DOMAIN gate : gate[p] = 1 => candidate[p] = 0
       /\ blocks' = [j \in DOMAIN blocks |-> GruLayer(blocks[j], gate, candidate, mask)]
  /\ layer' = layer + 1
  /\ UNCHANGED <<cfgVars, pc, storeVars, modelVars, loopVars, ret, input, target,
                 mask, scales, cur, layers, output, actVars, relax_dist>>

\* The step ends: the attention sum (or the block's result), layers.append(cur).
StepEnd ==
  /\ pc = "fwd_block" /\ layer = nconvs
  /\ cur' = IF num_attention > 0 THEN Attend(blocks, num_attention) ELSE blocks[1]
  /\ layers' = Append(layers, cur')
  /\ it' = it + 1
  /\ pc' = "fwd_step"
  /\ UNCHANGED <<cfgVars, storeVars, modelVars, todo, cur_length, steps, ret,
                 input, target, mask, scales, blocks, layer, output, actVars,
                 relax_dist>>

ForwardEnd ==
  /\ pc = "fwd_step" /\ it = Len(input)
  /\ pc' = "fwd_done"
  /\ UNCHANGED <<cfgVars, storeVars, modelVars, loopVars, ret, fwdVars, actVars,
                 relax_dist>>

NextLayers == ForwardBegin \/ StepBegin \/ GruBlockStep \/ StepEnd \/ ForwardEnd

SpecLayers == InitLayers /\ [][NextLayers]_vars

Padded == {p \in 1..Len(input) : input[p] = 0 /\ target[p] = 0}

\* C7: in the plain and in the attention path, after every gated-conv
\* application of every recurrent step, and in every recorded step state, the
\* grid is zero at each padded position.
C7_PaddingStaysZero ==
  /\ \A i \in 1..Len(layers) : \A p \in Padded : layers[i][p] = 0
  /\ pc = "fwd_block" =>
       \A j \in DOMAIN blocks : \A p \in Padded : blocks[j][p] = 0

C7_Witness ==
  /\ pc = "fwd_done" /\ num_attention = 1 /\ nconvs = 2
  /\ Len(layers) = 2 /\ Padded = {2}
  /\ layers[1] = <<1, 0>> /\ layers[2] = <<1, 0>>
  /\ input = <<0, 0>> /\ target = <<1, 0>>

\* -------------------------------------------------------------- relaxation
\* Rationals as [num, den], den > 0.
RatAdd(a, b) == [num |-> a.num * b.den + b.num * a.den, den |-> a.den * b.den]

\* The variables RX<l>/<suffix>, l = 0..rxstep-1, that exist (get_variable
\* under reuse raises ValueError for the others, which are skipped).
RECURSIVE RelaxedVars(_, _, _, _)
RelaxedVars(store, suffix, l, rxstep) ==
  IF l >= rxstep THEN <<>>
  ELSE (IF VarName(l, suffix) \in store THEN <<VarName(l, suffix)>> ELSE <<>>)
       \o RelaxedVars(store, suffix, l + 1, rxstep)

\* The elementwise add_n of the variables' values.
AddN(vals, names) ==
  [i \in DOMAIN vals[names[1]] |-> SumSeq([j \in 1..Len(names) |-> vals[names[j]][i]])]

\* relaxed_average dividing the sum by rx_step, not by the number of
\* variables found.
RelaxedAverageOverRxStep(store, vals, suffix, rxstep) ==
  LET vs == RelaxedVars(store, suffix, 0, rxstep)
      dsum == AddN(vals, vs)
  IN [avg |-> [num |-> dsum, den |-> rxstep],
      dist |-> [num |-> SumSeq([i \in DOMAIN dsum |->
                          SumSeq([j \in 1..Len(vs) |->
                            (rxstep * vals[vs[j]][i] - dsum[i])
                              * (rxstep * vals[vs[j]][i] - dsum[i])])]),
                den |-> rxstep * rxstep]]

\* relaxed_average: avg = add_n(vars) / len(vars); the distance is the sum
\* over the variables and their elements of (v - avg)^2.  With n = len(vars),
\* v - avg = (n * v - dsum) / n.
RelaxedAverage(store, vals, suffix, rxstep) ==
  LET vs == RelaxedVars(store, suffix, 0, rxstep)
      n == Len(vs)
      dsum == AddN(vals, vs)
  IN [avg |-> [num |-> dsum, den |-> n],
      dist |-> [num |-> SumSeq([i \in DOMAIN dsum |->
                          SumSeq([j \in 1..n |->
                            (n * vals[vs[j]][i] - dsum[i])
                              * (n * vals[vs[j]][i] - dsum[i])])]),
                den |-> n * n]]

\* relaxed_distance: over trainable_variables() in order, one relaxed_average
\* per RX name not yet done; the distances are added up.
RECURSIVE RelaxedDistanceFrom(_, _, _, _, _, _)
RelaxedDistanceFrom(log, i, store, vals, rxstep, rx_done) ==
  IF i > Len(log) THEN [num |-> 0, den |-> 1]
  ELSE IF IsRx(log[i]) /\ log[i].suffix \notin rx_done
    THEN RatAdd(RelaxedAverage(store, vals, log[i].suffix, rxstep).dist,
                RelaxedDistanceFrom(log, i + 1, store, vals, rxstep,
                                    rx_done \cup {log[i].suffix}))
    ELSE RelaxedDistanceFrom(log, i + 1, store, vals, rxstep, rx_done)

RelaxedDistance(log, vals, rxstep) ==
  RelaxedDistanceFrom(log, 1, SeqRange(log), vals, rxstep, {})

\* The store of a model with n RX slots of one gate transform: the embedding,
\* the input kernel, and per slot a kernel of two elements and a bias of one.
RelaxKernel == <<"cgru", 0, "lookup", "r", "CvK">>
RelaxBias == <<"cgru", 0, "lookup", "r", "CvB">>
RECURSIVE RelaxLog(_)
RelaxLog(n) ==
  IF n = 0 THEN <<EmbeddingName, VarName(NoRx, <<"input", "CvK">>)>>
  ELSE RelaxLog(n - 1) \o <<VarName(n - 1, RelaxKernel), VarName(n - 1, RelaxBias)>>

RelaxVals == {-1, 0, 1}
ShapeOf(name) == IF name.suffix = RelaxBias THEN 1 ELSE 2

InitRelax ==
  /\ \E n \in 1..MaxSlots :
       /\ creations = RelaxLog(n)
       /\ rx_step \in {n, n + 1}
  /\ var_store = SeqRange(creations)
  /\ \E draw \in [1..(3 * MaxSlots) -> RelaxVals] :
       params = [name \in var_store |->
                   IF ~IsRx(name) THEN [i \in 1..ShapeOf(name) |-> 1]
                   ELSE [i \in 1..ShapeOf(name) |->
                           draw[3 * name.rx + (IF name.suffix = RelaxBias THEN 3 ELSE i)]]]
  /\ pc = "relax"
  /\ bins = <<1>> /\ forward_max = 1 /\ mode = 0
  /\ nconvs = 1 /\ num_attention = 0 /\ seed = 0
  /\ global_step = 0 /\ model_reuse = FALSE /\ instances = <<>>
  /\ quant_vars = {} /\ avg_vars = {}
  /\ todo = <<>> /\ cur_length = 0 /\ it = 0 /\ steps = <<>>
  /\ ret = NoRet
  /\ relax_dist = [num |-> 0, den |-> 1]
  /\ IdleForward /\ IdleActivation

\* relax_dist, self.model.avg_op = relaxed_distance(self.config.rx_step)
RelaxedDistanceCall ==
  /\ pc = "relax"
  /\ relax_dist' = RelaxedDistance(creations, params, rx_step)
  /\ avg_vars' = {n \in var_store : IsRx(n)}
  /\ pc' = "relaxed"
  /\ UNCHANGED <<cfgVars, storeVars, global_step, model_reuse, instances,
                 quant_vars, loopVars, ret, fwdVars, actVars>>

NextRelax == RelaxedDistanceCall

SpecRelax == InitRelax /\ [][NextRelax]_vars

RxSuffixes == {n.suffix : n \in {m \in var_store : IsRx(m)}}
SlotsOf(suffix) == {n \in var_store : IsRx(n) /\ n.suffix = suffix}
RECURSIVE SumOver(_, _, _)
SumOver(S, F(_), dummy) ==
  IF S = {} THEN 0
  ELSE LET e == CHOOSE v \in S : TRUE IN F(e) + SumOver(S \ {e}, F, dummy)

\* n * sum(v^2) - (sum v)^2 at element i of a group: n times the sum of the
\* squared deviations of the group's duplicates there.
GroupSpread(suffix, i) ==
  LET S == SlotsOf(suffix)
      Sq(v) == params[v][i] * params[v][i]
      Id(v) == params[v][i]
  IN Cardinality(S) * SumOver(S, Sq, 0) - SumOver(S, Id, 0) * SumOver(S, Id, 0)

\* C4: the penalty is the sum over the groups, their existing duplicates and
\* their elements of the squared deviation from the group's elementwise mean
\* (here through sum (v - m)^2 = sum v^2 - (sum v)^2 / n); it is 0 exactly
\* when the duplicates of every group are identical, and positive otherwise.
C4_PenaltyZeroIffDuplicatesEqual ==
  pc = "relaxed" =>
    LET n == Cardinality({m.rx : m \in {k \in var_store : IsRx(k)}})
        GroupTotal(suffix) ==
          LET At(i) == GroupSpread(suffix, i)
          IN SumOver(1..ShapeOf(VarName(0, suffix)), At, 0)
        same == \A a, b \in var_store :
                  (IsRx(a) /\ IsRx(b) /\ a.suffix = b.suffix) => params[a] = params[b]
    IN /\ relax_dist.den > 0
       /\ relax_dist.num * n = relax_dist.den * SumOver(RxSuffixes, GroupTotal, 0)
       /\ same <=> relax_dist.num = 0
       /\ ~same <=> relax_dist.num > 0

C4_Witness ==
  /\ pc = "relaxed" /\ rx_step = 3 /\ Len(creations) = 6
  /\ params[VarName(0, RelaxKernel)] = <<1, -1>>
  /\ params[VarName(1, RelaxKernel)] = <<1, -1>>
  /\ params[VarName(0, RelaxBias)] = <<1>>
  /\ params[VarName(1, RelaxBias)] = <<1>>
  /\ relax_dist.num = 0

\* ================================================================== claims
BucketLengths == SeqRange(bins) \cup {forward_max}
InstanceLengthSet == {instances[i].length : i \in 1..Len(instances)}

\* C1: once the model is built, its instances are one per distinct length of
\* bins plus forward_max in ascending order, and get_instance_for_length(n)
\* returns the instance of the smallest such length >= n, or raises IndexError
\* (returning nothing) when n exceeds them all.
C1_SmallestCoveringInstance ==
  /\ pc = "ready" =>
       /\ InstanceLengthSet = BucketLengths
       /\ \A i \in 1..(Len(instances) - 1) :
            instances[i].length < instances[i + 1].length
  /\ ret.op = "get_instance_for_length" =>
       LET covering == {l \in BucketLengths : l >= ret.arg}
       IN IF covering = {}
            THEN ret.error = "IndexError" /\ ret.length = 0
            ELSE ret.error = "none" /\ ret.length = SetMin(covering)

C1_Witness ==
  /\ ret.op = "get_instance_for_length" /\ ret.error = "none"
  /\ Len(instances) >= 3
  /\ instances[1].length < ret.arg
  /\ ret.length = ret.arg
  /\ ret.length < instances[Len(instances)].length

\* Every recurrent step built so far, as <<instance index, step record>> lists:
\* those of the finished instances and of the instance under construction.
BuiltSteps ==
  [i \in 1..(Len(instances) + 1) |->
     IF i <= Len(instances) THEN instances[i].steps ELSE steps]

SlotIds(slot) ==
  {VarId(creations, n) : n \in {m \in var_store : m.rx = slot}}

\* C3: during the whole construction no variable is created twice, the RX
\* slots that exist are among 0..rx_step-1, every built step it of every
\* instance uses exactly the variables of slot it mod rx_step, and so two
\* instances use the same variable objects at the same step index.
C3_SlotsSharedNeverDuplicated ==
  /\ \A i, j \in 1..Len(creations) : creations[i] = creations[j] => i = j
  /\ \A n \in var_store : IsRx(n) => n.rx \in 0..(rx_step - 1)
  /\ \A i \in DOMAIN BuiltSteps : \A k \in 1..Len(BuiltSteps[i]) :
       /\ BuiltSteps[i][k].slot = (k - 1) % rx_step
       /\ BuiltSteps[i][k].ids = SlotIds((k - 1) % rx_step)
       /\ BuiltSteps[i][k].ids # {}
  /\ \A i, j \in DOMAIN BuiltSteps :
       \A k \in 1..Min(Len(BuiltSteps[i]), Len(BuiltSteps[j])) :
         BuiltSteps[i][k].ids = BuiltSteps[j][k].ids

C3_Witness ==
  /\ pc = "ready" /\ Len(instances) >= 2 /\ rx_step >= 2
  /\ instances[1].length > rx_step
  /\ Len(instances[2].steps) = instances[2].length

\* C10: construction never fails because a step asks, in reuse mode, for a
\* variable of a slot that was never created; every instance is built.
C10_NoReuseOfMissingSlot ==
  ~(pc = "failed" /\ ret.error = "ValueError: does not exist")

\* C8: an instance has a backward pass exactly when its length is the smallest
\* bin, or the mode is 0 and its length is at most the largest bin; and a step
\* applies an update only through an instance that has a backward pass.
C8_BackwardOnlyForTrainedBuckets ==
  /\ \A i \in 1..Len(instances) :
       instances[i].has_update <=>
         \/ instances[i].length = SetMin(SeqRange(bins))
         \/ mode = 0 /\ instances[i].length <= SetMax(SeqRange(bins))
  /\ (ret.op \in {"step", "simple_step"} /\ ret.updated) =>
       /\ ret.do_backward
       /\ \E i \in 1..Len(instances) :
            /\ instances[i].length = ret.length
            /\ instances[i].has_update
  /\ global_step > 0 =>
       \E i \in 1..Len(instances) : instances[i].has_update

C8_Witness ==
  /\ ret.op = "step" /\ ret.updated /\ global_step = 1
  /\ \E i \in 1..Len(instances) :
       ~instances[i].has_update /\ instances[i].length = forward_max
  /\ forward_max > bins[Len(bins)]

\* C9: a step with do_backward false leaves the global step and every
\* trainable parameter as they were, but for row 0 of the embedding table,
\* which is zero once the run has gone through.
C9_ForwardStepFrame ==
  [][(ret'.op \in {"step", "simple_step"} /\ ~ret'.do_backward) =>
       /\ global_step' = global_step
       /\ DOMAIN params' = DOMAIN params
       /\ \A n \in DOMAIN params : \A i \in DOMAIN params[n] :
            \/ params'[n][i] = params[n][i]
            \/ n = EmbeddingName /\ i = 1 /\ params'[n][i] = 0
       /\ ret'.error = "none" => params'[EmbeddingName][1] = 0]_vars

C9_Witness ==
  /\ ret.op = "simple_step" /\ ret.error = "none" /\ ret.arg < ret.length
  /\ params[EmbeddingName][1] = 0
  /\ params[EmbeddingName][2] # 0
  /\ global_step = 1

\* C2: after quant_op has run, every trainable parameter holds a quantized
\* value (quantizing it again changes nothing).
C2_QuantOpQuantizesEveryParameter ==
  ret.op = "quant_op" =>
    \A n \in var_store : params[n] = QuantizeTensor(params[n])

====
